---- MODULE Spec2Model ----
(***************************************************************************)
(* Model of auto_offset_z.py (Klipper extra AUTO_OFFSET_Z): construction   *)
(* of AutoOffsetZCalibration from the printer configuration, the command   *)
(* handler cmd_AUTO_OFFSET_Z with its two probes, the offset computation   *)
(* with the custom rounding, the fail-safe checks and set_offset.          *)
(*                                                                         *)
(* Numbers of the program are Python floats (IEEE-754 binary64).  They are *)
(* modelled bit for bit: a float is sign * mant * 2^exp with a mantissa of *)
(* MantDig bits, and every arithmetic step rounds to nearest, ties to      *)
(* even.  Mantissas do not fit 32-bit integers, so they are kept as        *)
(* little-endian sequences of limbs.                                       *)
(***************************************************************************)
EXTENDS Integers, Sequences, FiniteSets, TLC

(***************************************************************************)
(* Natural numbers of arbitrary size: little-endian limb sequences without *)
(* high zero limbs; <<>> is 0.                                             *)
(***************************************************************************)
LimbBits == 15
Base == 2 ^ LimbBits

Abs(i) == IF i < 0 THEN -i ELSE i

Sign(i) == IF i < 0 THEN -1 ELSE IF i > 0 THEN 1 ELSE 0

\* The element of a one-element set.  Only({F(v) : v \in {e}}) is F(e) with e
\* evaluated once and F applied to its value, as Python applies a function to
\* its evaluated argument; a LET would stand for the expression e instead.
Only(S) == CHOOSE v \in S : TRUE

RECURSIVE NatTrim(_)
NatTrim(a) ==
  Only({IF x = <<>> THEN <<>>
        ELSE IF x[Len(x)] = 0 THEN NatTrim(SubSeq(x, 1, Len(x) - 1))
        ELSE x : x \in {a}})

RECURSIVE NatFromInt(_)
NatFromInt(n) ==
  Only({IF m = 0 THEN <<>> ELSE <<m % Base>> \o NatFromInt(m \div Base) : m \in {n}})

RECURSIVE NatToInt(_)
NatToInt(a) ==
  Only({IF x = <<>> THEN 0 ELSE x[1] + Base * NatToInt(Tail(x)) : x \in {a}})

RECURSIVE NatMulC(_, _, _)
NatMulC(a, c, carry) ==
  Only({IF x = <<>> THEN NatFromInt(k)
        ELSE LET t == x[1] * c + k
             IN  <<t % Base>> \o NatMulC(Tail(x), c, t \div Base) :
          x \in {a}, k \in {carry}})

\* a * c for a small factor 0 <= c < Base
NatMulSmall(a, c) == NatTrim(NatMulC(a, c, 0))

RECURSIVE NatDivRemU(_, _)
NatDivRemU(a, c) ==
  Only({IF x = <<>> THEN [q |-> <<>>, r |-> 0]
        ELSE Only({LET t == hi.r * Base + x[1]
                   IN  [q |-> <<t \div c>> \o hi.q, r |-> t % c] :
                     hi \in {NatDivRemU(Tail(x), c)}}) :
          x \in {a}})

\* quotient and remainder of a by a small divisor 0 < c < Base
NatDivRem(a, c) == Only({[q |-> NatTrim(d.q), r |-> d.r] : d \in {NatDivRemU(a, c)}})

RECURSIVE NatAddC(_, _, _)
NatAddC(a, b, carry) ==
  Only({IF x = <<>> /\ y = <<>> THEN (IF k = 0 THEN <<>> ELSE <<k>>)
        ELSE LET t == (IF x = <<>> THEN 0 ELSE x[1]) + (IF y = <<>> THEN 0 ELSE y[1]) + k
             IN  <<t % Base>> \o NatAddC(IF x = <<>> THEN <<>> ELSE Tail(x),
                                         IF y = <<>> THEN <<>> ELSE Tail(y),
                                         t \div Base) :
          x \in {a}, y \in {b}, k \in {carry}})

NatAdd(a, b) == NatTrim(NatAddC(a, b, 0))

RECURSIVE NatSubB(_, _, _)
NatSubB(a, b, borrow) ==
  Only({IF x = <<>> THEN <<>>
        ELSE LET t == x[1] - (IF y = <<>> THEN 0 ELSE y[1]) - k
             IN  <<t % Base>> \o NatSubB(Tail(x),
                                         IF y = <<>> THEN <<>> ELSE Tail(y),
                                         IF t < 0 THEN 1 ELSE 0) :
          x \in {a}, y \in {b}, k \in {borrow}})

\* a - b for a >= b
NatSub(a, b) == NatTrim(NatSubB(a, b, 0))

RECURSIVE NatCmpFrom(_, _, _)
NatCmpFrom(a, b, i) ==
  IF i = 0 THEN 0
  ELSE IF a[i] < b[i] THEN -1
  ELSE IF a[i] > b[i] THEN 1
  ELSE NatCmpFrom(a, b, i - 1)

\* -1, 0, 1 as a < b, a = b, a > b
NatCmp(a, b) ==
  Only({IF Len(x) < Len(y) THEN -1
        ELSE IF Len(x) > Len(y) THEN 1
        ELSE NatCmpFrom(x, y, Len(x)) : x \in {a}, y \in {b}})

RECURSIVE IntBitLen(_)
IntBitLen(n) == IF n = 0 THEN 0 ELSE 1 + IntBitLen(n \div 2)

NatBitLen(a) ==
  Only({IF x = <<>> THEN 0 ELSE (Len(x) - 1) * LimbBits + IntBitLen(x[Len(x)]) : x \in {a}})

\* a * 2^s
NatShl(a, s) ==
  Only({IF x = <<>> THEN <<>>
        ELSE NatMulSmall([i \in 1..(s \div LimbBits) |-> 0] \o x, 2 ^ (s % LimbBits)) :
          x \in {a}})

\* floor(a / 2^s), and whether any of the bits shifted out was set
NatShrSticky(a, s) ==
  Only({LET drop == s \div LimbBits
        IN  IF drop >= Len(x) THEN [q |-> <<>>, sticky |-> x # <<>>]
            ELSE Only({[q |-> d.q, sticky |-> d.r # 0 \/ \E i \in 1..drop : x[i] # 0] :
                         d \in {NatDivRem(SubSeq(x, drop + 1, Len(x)), 2 ^ (s % LimbBits))}}) :
          x \in {a}})

(***************************************************************************)
(* Python floats.  [sgn, mant, exp] stands for sgn * mant * 2^exp; mant    *)
(* has exactly MantDig bits, except for zero.  The model's values stay far *)
(* from the exponent limits of binary64, so subnormals, infinities and NaN *)
(* do not arise; -0.0 compares equal to 0.0 in every test of the program   *)
(* and is identified with it.                                              *)
(***************************************************************************)
MantDig == 53

FZero == [sgn |-> 0, mant |-> <<>>, exp |-> 0]

\* the mantissa m of MantDig or MantDig + 1 bits, brought back to MantDig bits
Renormalize(sgn, m, e) ==
  IF NatBitLen(m) > MantDig
  THEN [sgn |-> sgn, mant |-> NatDivRem(m, 2).q, exp |-> e + 1]
  ELSE [sgn |-> sgn, mant |-> m, exp |-> e]

\* g.q holds MantDig + 1 bits, the last of them the rounding bit, and g.sticky
\* tells whether anything below it was set: to nearest, ties to even
RoundNearestEven(g) ==
  Only({IF h.r = 1 /\ (g.sticky \/ h.q[1] % 2 = 1) THEN NatAdd(h.q, <<1>>) ELSE h.q :
          h \in {NatDivRem(g.q, 2)}})

\* sgn * n * 2^e for n # 0 of L bits
RoundToMantDig(sgn, n, L, e) ==
  IF L <= MantDig
  THEN [sgn |-> sgn, mant |-> NatShl(n, MantDig - L), exp |-> e - (MantDig - L)]
  ELSE Only({Renormalize(sgn, m, e + (L - MantDig)) :
               m \in {RoundNearestEven(g) : g \in {NatShrSticky(n, L - MantDig - 1)}}})

\* sgn * N * 2^e rounded to MantDig bits, to nearest, ties to even
MakeFloat(sgn, N, e) ==
  Only({IF sgn = 0 \/ n = <<>> THEN FZero ELSE RoundToMantDig(sgn, n, NatBitLen(n), e) :
          n \in {N}})

\* float(k) for an integer k
FromInt(k) == Only({MakeFloat(Sign(i), NatFromInt(Abs(i)), 0) : i \in {k}})

\* the float nearest to k / c (integers, 0 < c < Base): Python's int / int,
\* and the value a decimal literal with numerator k and denominator c parses to
FromRatio(k, c) ==
  LET s == MantDig + LimbBits + 2
  IN  Only({Only({MakeFloat(Sign(i),
                            NatAdd(NatMulSmall(d.q, 2), IF d.r # 0 THEN <<1>> ELSE <<>>),
                            0 - s - 1) :
                    d \in {NatDivRem(NatShl(NatFromInt(Abs(i)), s), c)}}) :
              i \in {k}})

FNeg(x) == [x EXCEPT !.sgn = 0 - x.sgn]

FAbs(x) == [x EXCEPT !.sgn = Abs(x.sgn)]

\* sx * X * 2^e + sy * Y * 2^e for nonzero signs
AddAligned(sx, X, sy, Y, e) ==
  LET c == NatCmp(X, Y)
  IN  IF sx = sy THEN MakeFloat(sx, NatAdd(X, Y), e)
      ELSE IF c = 0 THEN FZero
      ELSE IF c > 0 THEN MakeFloat(sx, NatSub(X, Y), e)
      ELSE MakeFloat(sy, NatSub(Y, X), e)

\* x + y
AddNonzero(x, y) ==
  LET e == IF x.exp < y.exp THEN x.exp ELSE y.exp
  IN  Only({AddAligned(x.sgn, X, y.sgn, Y, e) :
              X \in {NatShl(x.mant, x.exp - e)}, Y \in {NatShl(y.mant, y.exp - e)}})

\* x + y
FAdd(x, y) ==
  Only({IF a.sgn = 0 THEN b ELSE IF b.sgn = 0 THEN a ELSE AddNonzero(a, b) :
          a \in {x}, b \in {y}})

\* x - y
FSub(x, y) == FAdd(x, FNeg(y))

\* x < y: the rounded difference has the sign of the exact one
FLess(x, y) == FSub(x, y).sgn < 0

\* the largest float below a positive float x
FPred(x) ==
  IF x.mant = NatShl(<<1>>, MantDig - 1)
  THEN [x EXCEPT !.mant = NatSub(NatShl(<<1>>, MantDig), <<1>>), !.exp = x.exp - 1]
  ELSE [x EXCEPT !.mant = NatSub(x.mant, <<1>>)]

\* x * c for an integer 0 < c < Base (the int operand converts exactly)
FMulInt(x, c) == Only({MakeFloat(a.sgn, NatMulSmall(a.mant, c), a.exp) : a \in {x}})

\* math.floor(x), an integer
FFloor(x) ==
  IF x.sgn = 0 THEN 0
  ELSE IF x.exp >= 0 THEN x.sgn * NatToInt(NatShl(x.mant, x.exp))
  ELSE Only({IF x.sgn > 0 THEN NatToInt(s.q)
             ELSE 0 - (NatToInt(s.q) + (IF s.sticky THEN 1 ELSE 0)) :
               s \in {NatShrSticky(x.mant, 0 - x.exp)}})

\* math.ceil(x), an integer
FCeil(x) ==
  IF x.sgn = 0 THEN 0
  ELSE IF x.exp >= 0 THEN x.sgn * NatToInt(NatShl(x.mant, x.exp))
  ELSE Only({IF x.sgn > 0 THEN NatToInt(s.q) + (IF s.sticky THEN 1 ELSE 0)
             ELSE 0 - NatToInt(s.q) :
               s \in {NatShrSticky(x.mant, 0 - x.exp)}})

\* AutoOffsetZCalibration.rounding
rounding(n, decimals) ==
  Only({IF FLess(Only({FSub(FAbs(expoN), f) : f \in {FromInt(Abs(FFloor(expoN)))}}),
                 FromRatio(1, 2))
        THEN FromRatio(FFloor(expoN), 10 ^ decimals)
        ELSE FromRatio(FCeil(expoN), 10 ^ decimals) :
          expoN \in {FMulInt(n, 10 ^ decimals)}})

(***************************************************************************)
(* Values of the model's inputs.                                           *)
(***************************************************************************)
\* the float a decimal literal with k thousandths parses to
Dec(k) == FromRatio(k, 1000)

\* an optional value: <<>> when absent (None, or an option the file omits)
Opt(S) == {<<>>} \cup {<<v>> : v \in S}

\* largest deviation, in thousandths, of a probe sample beyond a nominal height
MaxJitter == 1

\* Z heights the probe may report over the endstop and over the bed
EndstopHeights == {Dec(0 - 200), Dec(1000)} \cup {Dec(2000 + i) : i \in 0..MaxJitter}

BedHeights == {Dec(0 - 500), Dec(500)} \cup {Dec(1500 + i) : i \in 0..MaxJitter}

\* OFFSETADJUST on the command line: absent, 0, or -0.0004
ParamChoices == {<<>>, <<FZero>>, <<FromRatio(0 - 4, 10000)>>}

Axes == {"x", "y", "z"}

PhysicalPin == "PG10"

VirtualPin == "probe:z_virtual_endstop"

\* 'virtual_endstop' in endstop_pin, over the pins of the model
IsVirtualEndstop(pin) == pin = VirtualPin

SensorSections ==
  {<<>>,
   <<[x_offset |-> FZero, y_offset |-> FZero]>>,
   <<[x_offset |-> FromInt(25), y_offset |-> FromInt(0 - 10)]>>}

\* a printer.cfg with a [bltouch], a [quad_gantry_level], a physical Z endstop
\* and an [auto_offset_z] section that sets the two required positions only
DefaultConfig ==
  [bltouch |-> <<[x_offset |-> FromInt(25), y_offset |-> FromInt(0 - 10)]>>,
   probe |-> <<>>,
   quad_gantry_level |-> TRUE,
   z_tilt |-> FALSE,
   endstop_pin |-> PhysicalPin,
   position_max |-> FromInt(250),
   center_xy_position |-> <<FromInt(100), FromInt(100)>>,
   endstop_xy_position |-> <<FromInt(230), FromInt(5)>>,
   z_hop |-> <<>>,
   z_hop_speed |-> <<>>,
   speed |-> <<>>,
   ignore_alignment |-> <<>>,
   ignore_endstopoffset |-> <<>>,
   offsetadjust |-> <<>>,
   internalendstopoffset |-> <<>>,
   offset_min |-> <<>>,
   offset_max |-> <<>>,
   endstop_min |-> <<>>,
   endstop_max |-> <<>>]

\* configurations that differ from DefaultConfig in the sensor sections
SensorConfigs ==
  {[DefaultConfig EXCEPT !.bltouch = b, !.probe = p, !.endstop_pin = pin] :
     b \in SensorSections, p \in SensorSections, pin \in {PhysicalPin, VirtualPin}}

\* ... in the leveling sections and the ignore_alignment option
LevelingConfigs ==
  {[DefaultConfig EXCEPT !.quad_gantry_level = q, !.z_tilt = t, !.ignore_alignment = i] :
     q \in BOOLEAN, t \in BOOLEAN, i \in Opt(BOOLEAN)}

\* ... in the terms of the offset computation
OffsetConfigs ==
  {[DefaultConfig EXCEPT !.ignore_endstopoffset = i, !.offsetadjust = a] :
     i \in Opt({TRUE}), a \in Opt({Dec(50)})}

\* ... in the limits of the fail-safe
LimitConfigs ==
  {[DefaultConfig EXCEPT !.offset_max = om, !.endstop_min = lo, !.endstop_max = hi] :
     om \in Opt({Dec(500), FPred(FromInt(1))}), lo \in Opt({Dec(1000)}), hi \in Opt({Dec(2000)})}

\* ... in the hop
HopConfigs ==
  {[DefaultConfig EXCEPT !.z_hop = h] : h \in Opt({FZero, FromInt(0 - 5)})}

Configs == SensorConfigs \cup LevelingConfigs \cup OffsetConfigs \cup LimitConfigs \cup HopConfigs

\* offsets that may be applied when the module is loaded
InitialOffsets == {FZero, Dec(200)}

VARIABLES
  config,           \* the printer configuration the object is built from
  self,             \* the fields of the AutoOffsetZCalibration object
  registered,       \* AUTO_OFFSET_Z is registered with the gcode dispatcher
  pc,               \* position of the constructor or of the command handler
  err,              \* the error the constructor or the current run raised
  homed_axes,       \* kin_status['homed_axes'] at the invocation
  applied,          \* 'applied' status of each leveling object at the invocation
  gcmd,             \* parameters of the running AUTO_OFFSET_Z command
  gcode_z_offset,   \* the Z offset applied by gcode_move
  offset_changed,   \* some SET_GCODE_OFFSET of the current run changed gcode_z_offset
  cmds,             \* commands the current run issued to toolhead, probe and gcode_move
  paramoffsetadjust, zendstop, zbed, offset,   \* locals of cmd_AUTO_OFFSET_Z
  outcome,          \* the values the run reported with respond_info (lines 167, 170)
  rk, rn, rdecimals, r1, r2, rpc    \* the rounding function applied on its own: the
                                    \* input rn = rk * 0.0005, the results of one and two calls

vars == <<config, self, registered, pc, err, homed_axes, applied, gcmd, gcode_z_offset,
          offset_changed, cmds, paramoffsetadjust, zendstop, zbed, offset, outcome,
          rk, rn, rdecimals, r1, r2, rpc>>

machine == <<config, self, registered, pc, err, homed_axes, applied, gcmd, gcode_z_offset,
             offset_changed, cmds, paramoffsetadjust, zendstop, zbed, offset, outcome>>

roundvars == <<rk, rn, rdecimals, r1, r2, rpc>>

(***************************************************************************)
(* AutoOffsetZCalibration.__init__                                         *)
(***************************************************************************)
\* config.getfloat / config.getboolean with a default
getoption(opt, default) == IF opt = <<>> THEN default ELSE opt[1]

\* the error raised by the sensor checks, "none" when they pass
SensorError(c) ==
  IF c.bltouch # <<>>
  THEN IF c.bltouch[1].x_offset = FZero /\ c.bltouch[1].y_offset = FZero
       THEN "BltouchOffsetZero"
       ELSE IF IsVirtualEndstop(c.endstop_pin) THEN "BltouchVirtualEndstop"
       ELSE "none"
  ELSE IF c.probe # <<>>
  THEN IF c.probe[1].x_offset = FZero /\ c.probe[1].y_offset = FZero
       THEN "ProbeOffsetZero"
       ELSE IF IsVirtualEndstop(c.endstop_pin) THEN "ProbeVirtualEndstop"
       ELSE "none"
  ELSE "NoSensor"

\* self.adjusttype, "" when no branch sets it and the constructor raises
AdjustType(c) ==
  IF c.quad_gantry_level THEN "qgl"
  ELSE IF c.z_tilt THEN "ztilt"
  ELSE IF getoption(c.ignore_alignment, FALSE) THEN "ignore"
  ELSE ""

ConfigError(c) ==
  IF SensorError(c) # "none" THEN SensorError(c)
  ELSE IF AdjustType(c) = "" THEN "NoAlignment"
  ELSE "none"

\* the fields of the object when the constructor returns
NewSelf(c) ==
  LET sensor == IF c.bltouch # <<>> THEN c.bltouch[1] ELSE c.probe[1]
  IN  [center_x_pos |-> c.center_xy_position[1],
       center_y_pos |-> c.center_xy_position[2],
       endstop_x_pos |-> c.endstop_xy_position[1],
       endstop_y_pos |-> c.endstop_xy_position[2],
       z_hop |-> getoption(c.z_hop, FromInt(10)),
       z_hop_speed |-> getoption(c.z_hop_speed, FromInt(15)),
       max_z |-> c.position_max,
       ignore_alignment |-> getoption(c.ignore_alignment, FALSE),
       ignore_endstopoffset |-> getoption(c.ignore_endstopoffset, FALSE),
       endstop_pin |-> c.endstop_pin,
       speed |-> getoption(c.speed, FromInt(50)),
       offsetadjust |-> getoption(c.offsetadjust, FZero),
       internalendstopoffset |-> getoption(c.internalendstopoffset, FromRatio(1, 2)),
       offset_min |-> getoption(c.offset_min, FromInt(0 - 1)),
       offset_max |-> getoption(c.offset_max, FromInt(1)),
       endstop_min |-> getoption(c.endstop_min, FZero),
       endstop_max |-> getoption(c.endstop_max, FZero),
       x_offset |-> sensor.x_offset,
       y_offset |-> sensor.y_offset,
       adjusttype |-> AdjustType(c)]

\* the command is registered (line 37) before the sensor and leveling checks
Construct ==
  /\ pc = "new"
  /\ registered' = TRUE
  /\ IF ConfigError(config) # "none"
     THEN /\ err' = ConfigError(config)
          /\ pc' = "config_error"
          /\ self' = self
     ELSE /\ err' = "none"
          /\ pc' = "idle"
          /\ self' = NewSelf(config)
  /\ UNCHANGED <<config, homed_axes, applied, gcmd, gcode_z_offset, offset_changed, cmds,
                 paramoffsetadjust, zendstop, zbed, offset, outcome>>
  /\ UNCHANGED roundvars

(***************************************************************************)
(* The collaborators: gcode_move, toolhead and probe.  Each call of the    *)
(* handler is appended to cmds.                                            *)
(***************************************************************************)
Call(name, args) == [cmd |-> name, arg |-> args]

\* gcode_move.cmd_SET_GCODE_OFFSET with Z=z on the sink g = [offset, changed]
SetGcodeOffset(g, z) == [offset |-> z, changed |-> g.changed \/ z # g.offset]

\* SensorTarget without the sensor offset: the nozzle is put over (x, y)
SensorTargetOfNozzle(x, y) == << <<x>>, <<y>> >>

\* the target of a travel move that puts the sensor over (x, y)
SensorTarget(x, y) == << <<FSub(x, self.x_offset)>>, <<FSub(y, self.y_offset)>> >>

\* toolhead.manual_move([None, None, self.z_hop], self.z_hop_speed)
HopMove == Call("manual_move", << << <<>>, <<>>, <<self.z_hop>> >>, self.z_hop_speed >>)

ProbeStart == <<Call("start_probe_session", <<>>), Call("run_probe", <<>>)>>

ProbeFinish == <<Call("pull_probed_results", <<>>), Call("end_probe_session", <<>>)>>

(***************************************************************************)
(* AutoOffsetZCalibration.cmd_AUTO_OFFSET_Z, one action per step           *)
(***************************************************************************)
\* AllHomed with the test of Z left out
AllHomedWithoutZ(h) == "x" \in h /\ "y" \in h

\* X, Y and Z are all in kin_status['homed_axes']
AllHomed(h) == "x" \in h /\ "y" \in h /\ "z" \in h

\* 'applied' statuses the leveling objects of the configuration may report
AppliedChoices ==
  {[quad_gantry_level |-> q, z_tilt |-> t] :
     q \in (IF config.quad_gantry_level THEN Opt(BOOLEAN) \ {<<>>} ELSE {<<>>}),
     t \in (IF config.z_tilt THEN Opt(BOOLEAN) \ {<<>>} ELSE {<<>>})}

\* lines 84-97: read the status and the parameter, then the homing check
CmdStart ==
  /\ pc = "idle"
  /\ \E h \in SUBSET Axes, a \in AppliedChoices, p \in ParamChoices :
       /\ homed_axes' = h
       /\ applied' = a
       /\ gcmd' = [OFFSETADJUST |-> p]
       /\ paramoffsetadjust' = <<getoption(p, FZero)>>
       /\ IF AllHomed(h)
          THEN err' = "none" /\ pc' = "align"
          ELSE err' = "NotHomed" /\ pc' = "done"
  /\ UNCHANGED <<config, self, registered, gcode_z_offset, offset_changed, cmds,
                 zendstop, zbed, offset, outcome>>
  /\ UNCHANGED roundvars

\* AlignmentError with the status test of the z_tilt branch left out
AlignmentErrorQglOnly(adjusttype, a) ==
  IF adjusttype = "qgl"
  THEN IF a.quad_gantry_level # <<TRUE>> THEN "AlignmentNotApplied" ELSE "none"
  ELSE IF adjusttype \in {"ztilt", "ignore"} THEN "none"
  ELSE "NameError"

\* lines 99-122: the error of the alignment check, "none" when it passes
AlignmentError(adjusttype, a) ==
  IF adjusttype = "qgl"
  THEN IF a.quad_gantry_level # <<TRUE>> THEN "AlignmentNotApplied" ELSE "none"
  ELSE IF adjusttype = "ztilt"
  THEN IF a.z_tilt # <<TRUE>> THEN "AlignmentNotApplied" ELSE "none"
  ELSE IF adjusttype = "ignore" THEN "none"
  ELSE "NameError"

AlignmentVerify ==
  /\ pc = "align"
  /\ err' = AlignmentError(self.adjusttype, applied)
  /\ pc' = IF err' = "none" THEN "reset" ELSE "done"
  /\ UNCHANGED <<config, self, registered, homed_axes, applied, gcmd, gcode_z_offset,
                 offset_changed, cmds, paramoffsetadjust, zendstop, zbed, offset, outcome>>
  /\ UNCHANGED roundvars

\* ResetOffset with the SET_GCODE_OFFSET call left out
ResetOffsetOmitted ==
  /\ pc = "reset"
  /\ pc' = "move_endstop"
  /\ UNCHANGED <<config, self, registered, err, homed_axes, applied, gcmd, gcode_z_offset,
                 offset_changed, cmds, paramoffsetadjust, zendstop, zbed, offset, outcome>>
  /\ UNCHANGED roundvars

\* lines 128-131: SET_GCODE_OFFSET Z=0
ResetOffset ==
  /\ pc = "reset"
  /\ LET g == SetGcodeOffset([offset |-> gcode_z_offset, changed |-> offset_changed], FZero)
     IN  /\ gcode_z_offset' = g.offset
         /\ offset_changed' = g.changed
  /\ cmds' = Append(cmds, Call("SET_GCODE_OFFSET", <<FZero>>))
  /\ pc' = "move_endstop"
  /\ UNCHANGED <<config, self, registered, err, homed_axes, applied, gcmd,
                 paramoffsetadjust, zendstop, zbed, offset, outcome>>
  /\ UNCHANGED roundvars

\* a travel move of the sensor over (x, y); the toolhead may reject the move
TravelMove(from, to, x, y) ==
  /\ pc = from
  /\ cmds' = Append(cmds, Call("manual_move", <<SensorTarget(x, y), self.speed>>))
  /\ \E ok \in BOOLEAN :
       IF ok THEN pc' = to /\ err' = err
       ELSE pc' = "done" /\ err' = "MoveError"
  /\ UNCHANGED <<config, self, registered, homed_axes, applied, gcmd, gcode_z_offset,
                 offset_changed, paramoffsetadjust, zendstop, zbed, offset, outcome>>
  /\ UNCHANGED roundvars

\* line 135
MoveToEndstop == TravelMove("move_endstop", "probe_endstop", self.endstop_x_pos, self.endstop_y_pos)

\* line 148
MoveToCenter == TravelMove("move_center", "probe_bed", self.center_x_pos, self.center_y_pos)

\* pull_probed_results()[0] of a sample of height z taken where the last move went
ProbedPosition(z) ==
  LET coord == cmds[Len(cmds)].arg[1] IN <<coord[1][1], coord[2][1], z>>

\* lines 137-140: one probe session; run_probe may raise
ProbeEndstop ==
  /\ pc = "probe_endstop"
  /\ \/ /\ \E z \in EndstopHeights : zendstop' = ProbedPosition(z)
        /\ cmds' = cmds \o ProbeStart \o ProbeFinish
        /\ pc' = "hop_endstop"
        /\ err' = err
     \/ /\ cmds' = cmds \o ProbeStart
        /\ pc' = "done"
        /\ err' = "ProbeError"
        /\ zendstop' = zendstop
  /\ UNCHANGED <<config, self, registered, homed_axes, applied, gcmd, gcode_z_offset,
                 offset_changed, paramoffsetadjust, zbed, offset, outcome>>
  /\ UNCHANGED roundvars

\* ProbeBed going back to the travel move for another attempt when run_probe raised
ProbeBedRetrying ==
  /\ pc = "probe_bed"
  /\ \/ /\ \E z \in BedHeights : zbed' = ProbedPosition(z)
        /\ cmds' = cmds \o ProbeStart \o ProbeFinish
        /\ pc' = "hop_bed"
     \/ /\ cmds' = cmds \o ProbeStart
        /\ pc' = "move_center"
        /\ zbed' = zbed
  /\ UNCHANGED <<config, self, registered, err, homed_axes, applied, gcmd, gcode_z_offset,
                 offset_changed, paramoffsetadjust, zendstop, offset, outcome>>
  /\ UNCHANGED roundvars

\* lines 150-153
ProbeBed ==
  /\ pc = "probe_bed"
  /\ \/ /\ \E z \in BedHeights : zbed' = ProbedPosition(z)
        /\ cmds' = cmds \o ProbeStart \o ProbeFinish
        /\ pc' = "hop_bed"
        /\ err' = err
     \/ /\ cmds' = cmds \o ProbeStart
        /\ pc' = "done"
        /\ err' = "ProbeError"
        /\ zbed' = zbed
  /\ UNCHANGED <<config, self, registered, homed_axes, applied, gcmd, gcode_z_offset,
                 offset_changed, paramoffsetadjust, zendstop, offset, outcome>>
  /\ UNCHANGED roundvars

\* "if self.z_hop:" holds for every nonzero float
HopEnabled(z_hop) == z_hop # FZero

\* lines 143-144 and 156-157: the hop after a probe
Hop(from, to) ==
  /\ pc = from
  /\ IF HopEnabled(self.z_hop)
     THEN /\ cmds' = Append(cmds, HopMove)
          /\ \E ok \in BOOLEAN :
               IF ok THEN pc' = to /\ err' = err
               ELSE pc' = "done" /\ err' = "MoveError"
     ELSE /\ cmds' = cmds
          /\ pc' = to
          /\ err' = err
  /\ UNCHANGED <<config, self, registered, homed_axes, applied, gcmd, gcode_z_offset,
                 offset_changed, paramoffsetadjust, zendstop, zbed, offset, outcome>>
  /\ UNCHANGED roundvars

HopAfterEndstop == Hop("hop_endstop", "move_center")

\* HopAfterBed with the hop left to the end of the run, which a failed
\* validation never reaches
HopAfterBedDeferred ==
  /\ pc = "hop_bed"
  /\ pc' = "compute"
  /\ UNCHANGED <<config, self, registered, err, homed_axes, applied, gcmd, gcode_z_offset,
                 offset_changed, cmds, paramoffsetadjust, zendstop, zbed, offset, outcome>>
  /\ UNCHANGED roundvars

HopAfterBed == Hop("hop_bed", "compute")

\* lines 160-161: self.internalendstopoffset once the ignore flag is applied
EndstopOffsetUsed(slf) ==
  IF slf.ignore_endstopoffset THEN FZero ELSE slf.internalendstopoffset

\* lines 165-170: the adjust term
AdjustUsed(param, offsetadjust) == IF param # FZero THEN param ELSE offsetadjust

\* ComputeOffset with the two probe heights exchanged
ComputeOffsetSwapped(ze, zb, ieo, adjust) ==
  CHOOSE o \in
    {rounding(sum, 3) :
       sum \in {FAdd(part, adjust) :
         part \in {FAdd(neg, ieo) :
           neg \in {FSub(FZero, diffbedendstop) :
             diffbedendstop \in {FSub(zb, ze)}}}}} : TRUE

\* lines 164-170: rounding((0 - diffbedendstop) + internalendstopoffset + adjust, 3).
\* Python evaluates the expression inside out, each float operation on the
\* value of the one before; the singleton sets bind those values in that order.
ComputeOffset(ze, zb, ieo, adjust) ==
  CHOOSE o \in
    {rounding(sum, 3) :
       sum \in {FAdd(part, adjust) :
         part \in {FAdd(neg, ieo) :
           neg \in {FSub(FZero, diffbedendstop) :
             diffbedendstop \in {FSub(ze, zb)}}}}} : TRUE

\* lines 167 and 170: the values of the report
Report(ze, zb, adjust, o) ==
  [bed |-> zb, endstop |-> ze, diff |-> FSub(ze, zb), adjust |-> adjust, offset |-> o]

\* Compute storing a nonzero OFFSETADJUST in self.offsetadjust
ComputeKeepingOverride ==
  /\ pc = "compute"
  /\ self' = [self EXCEPT !.internalendstopoffset = EndstopOffsetUsed(self),
                          !.offsetadjust = AdjustUsed(paramoffsetadjust[1], self.offsetadjust)]
  /\ \E o \in {ComputeOffset(zendstop[3], zbed[3], self'.internalendstopoffset,
                              self'.offsetadjust)} :
       /\ offset' = <<o>>
       /\ outcome' = <<Report(zendstop[3], zbed[3], self'.offsetadjust, o)>>
  /\ pc' = "validate"
  /\ UNCHANGED <<config, registered, err, homed_axes, applied, gcmd, gcode_z_offset,
                 offset_changed, cmds, paramoffsetadjust, zendstop, zbed>>
  /\ UNCHANGED roundvars

\* lines 160-170: self.internalendstopoffset is overwritten when the flag is set
Compute ==
  /\ pc = "compute"
  /\ self' = [self EXCEPT !.internalendstopoffset = EndstopOffsetUsed(self)]
  /\ \E adjust \in {AdjustUsed(paramoffsetadjust[1], self.offsetadjust)} :
     \E o \in {ComputeOffset(zendstop[3], zbed[3], self'.internalendstopoffset, adjust)} :
       /\ offset' = <<o>>
       /\ outcome' = <<Report(zendstop[3], zbed[3], adjust, o)>>
  /\ pc' = "validate"
  /\ UNCHANGED <<config, registered, err, homed_axes, applied, gcmd, gcode_z_offset,
                 offset_changed, cmds, paramoffsetadjust, zendstop, zbed>>
  /\ UNCHANGED roundvars

\* OffsetOutOfLimits with the limits themselves rejected
OffsetOutOfLimitsExclusive(o, lo, hi) == ~FLess(lo, o) \/ ~FLess(o, hi)

\* line 173
OffsetOutOfLimits(o, lo, hi) == FLess(o, lo) \/ FLess(hi, o)

\* EndstopBelowMin without the test that disables a limit of 0
EndstopBelowMinAlways(z, lo) == FLess(z, lo)

\* line 176
EndstopBelowMin(z, lo) == lo # FZero /\ FLess(z, lo)

\* EndstopAboveMax with the comparison turned around
EndstopAboveMaxReversed(z, hi) == hi # FZero /\ FLess(z, hi)

\* line 179
EndstopAboveMax(z, hi) == hi # FZero /\ FLess(hi, z)

\* ValidateError without the two endstop checks
ValidateErrorOffsetOnly(slf, o, z) ==
  IF OffsetOutOfLimits(o, slf.offset_min, slf.offset_max) THEN "OffsetOutOfBounds" ELSE "none"

\* lines 172-180: the error of the fail-safe, "none" when it passes
ValidateError(slf, o, z) ==
  IF OffsetOutOfLimits(o, slf.offset_min, slf.offset_max) THEN "OffsetOutOfBounds"
  ELSE IF EndstopBelowMin(z, slf.endstop_min) THEN "EndstopMinOutOfBounds"
  ELSE IF EndstopAboveMax(z, slf.endstop_max) THEN "EndstopMaxOutOfBounds"
  ELSE "none"

Validate ==
  /\ pc = "validate"
  /\ err' = ValidateError(self, offset[1], zendstop[3])
  /\ pc' = IF err' = "none" THEN "commit" ELSE "done"
  /\ UNCHANGED <<config, self, registered, homed_axes, applied, gcmd, gcode_z_offset,
                 offset_changed, cmds, paramoffsetadjust, zendstop, zbed, offset, outcome>>
  /\ UNCHANGED roundvars

\* the Z values set_offset passes to SET_GCODE_OFFSET, in order (lines 186-196)
SetOffsetValues(o) == <<FZero, o>>

\* line 182: self.set_offset(offset)
Commit ==
  /\ pc = "commit"
  /\ LET zs == SetOffsetValues(offset[1])
         g0 == [offset |-> gcode_z_offset, changed |-> offset_changed]
         g  == SetGcodeOffset(SetGcodeOffset(g0, zs[1]), zs[2])
     IN  /\ gcode_z_offset' = g.offset
         /\ offset_changed' = g.changed
         /\ cmds' = cmds \o <<Call("SET_GCODE_OFFSET", <<zs[1]>>),
                              Call("SET_GCODE_OFFSET", <<zs[2]>>)>>
  /\ pc' = "done"
  /\ UNCHANGED <<config, self, registered, err, homed_axes, applied, gcmd,
                 paramoffsetadjust, zendstop, zbed, offset, outcome>>
  /\ UNCHANGED roundvars

\* the handler returns, or its error reaches the dispatcher: the locals of the
\* run are gone, the object and the applied offset stay
Return ==
  /\ pc = "done"
  /\ pc' = "idle"
  /\ err' = "none"
  /\ homed_axes' = {}
  /\ applied' = [quad_gantry_level |-> <<>>, z_tilt |-> <<>>]
  /\ gcmd' = [OFFSETADJUST |-> <<>>]
  /\ offset_changed' = FALSE
  /\ cmds' = <<>>
  /\ paramoffsetadjust' = <<>>
  /\ zendstop' = <<>>
  /\ zbed' = <<>>
  /\ offset' = <<>>
  /\ outcome' = <<>>
  /\ UNCHANGED <<config, self, registered, gcode_z_offset>>
  /\ UNCHANGED roundvars

(***************************************************************************)
(* The rounding function on its own                                        *)
(***************************************************************************)
\* largest numerator of the decimal inputs
MaxNumerator == 4020

\* largest number of decimals asked for
MaxDecimals == 3

\* the inputs: the floats nearest to the multiples k * 0.0005
RoundInput(k) == FromRatio(k, 2000)

RoundOnce ==
  /\ rpc = "start"
  /\ r1' = <<rounding(rn, rdecimals)>>
  /\ rpc' = "once"
  /\ UNCHANGED <<rk, rn, rdecimals, r2>>
  /\ UNCHANGED machine

RoundAgain ==
  /\ rpc = "once"
  /\ r2' = <<rounding(r1[1], rdecimals)>>
  /\ rpc' = "twice"
  /\ UNCHANGED <<rk, rn, rdecimals, r1>>
  /\ UNCHANGED machine

(***************************************************************************)
(* Specifications                                                          *)
(***************************************************************************)
MachineInit ==
  /\ self = <<>>
  /\ registered = FALSE
  /\ pc = "new"
  /\ err = "none"
  /\ homed_axes = {}
  /\ applied = [quad_gantry_level |-> <<>>, z_tilt |-> <<>>]
  /\ gcmd = [OFFSETADJUST |-> <<>>]
  /\ offset_changed = FALSE
  /\ cmds = <<>>
  /\ paramoffsetadjust = <<>>
  /\ zendstop = <<>>
  /\ zbed = <<>>
  /\ offset = <<>>
  /\ outcome = <<>>

Init ==
  /\ config \in Configs
  /\ gcode_z_offset \in InitialOffsets
  /\ MachineInit
  /\ rk = 0 /\ rn = FZero /\ rdecimals = 0 /\ r1 = <<>> /\ r2 = <<>> /\ rpc = "off"

Next ==
  \/ Construct
  \/ CmdStart
  \/ AlignmentVerify
  \/ ResetOffset
  \/ MoveToEndstop
  \/ ProbeEndstop
  \/ HopAfterEndstop
  \/ MoveToCenter
  \/ ProbeBed
  \/ HopAfterBed
  \/ Compute
  \/ Validate
  \/ Commit
  \/ Return

Spec == Init /\ [][Next]_vars

\* the steps of a running handler: Python executes the body of
\* cmd_AUTO_OFFSET_Z statement after statement until it returns or raises
HandlerStep ==
  \/ AlignmentVerify
  \/ ResetOffset
  \/ MoveToEndstop
  \/ ProbeEndstop
  \/ HopAfterEndstop
  \/ MoveToCenter
  \/ ProbeBed
  \/ HopAfterBed
  \/ Compute
  \/ Validate
  \/ Commit

\* a handler that has started keeps running while its calls return
FairSpec == Spec /\ WF_vars(HandlerStep)

RoundInit ==
  /\ config = DefaultConfig
  /\ gcode_z_offset = FZero
  /\ MachineInit
  /\ rk \in (0 - MaxNumerator)..MaxNumerator
  /\ rn = RoundInput(rk)
  /\ rdecimals \in 0..MaxDecimals
  /\ r1 = <<>> /\ r2 = <<>> /\ rpc = "start"

RoundNext == RoundOnce \/ RoundAgain

RoundSpec == RoundInit /\ [][RoundNext]_vars

(***************************************************************************)
(* Properties                                                              *)
(***************************************************************************)
\* a run of the handler has started
RunStarted == pc \notin {"new", "config_error", "idle"}

\* the run went through the offset computation
Computed == RunStarted /\ offset # <<>>

IsSinkCall(c) == c.cmd = "SET_GCODE_OFFSET"

\* the Z values the run passed to SET_GCODE_OFFSET, in order
SinkValues == [i \in DOMAIN SelectSeq(cmds, IsSinkCall) |-> SelectSeq(cmds, IsSinkCall)[i].arg[1]]

OutOfBoundsErrors == {"OffsetOutOfBounds", "EndstopMinOutOfBounds", "EndstopMaxOutOfBounds"}

\* the configured values, with the defaults of the options
CfgOffsetMin == getoption(config.offset_min, FromInt(0 - 1))

CfgOffsetMax == getoption(config.offset_max, FromInt(1))

CfgEndstopMin == getoption(config.endstop_min, FZero)

CfgEndstopMax == getoption(config.endstop_max, FZero)

CfgManualAdjust == getoption(config.offsetadjust, FZero)

\* offset outside offset_bounds, or endstop_z outside an enabled endstop bound
ValidationFails ==
  \/ FLess(offset[1], CfgOffsetMin)
  \/ FLess(CfgOffsetMax, offset[1])
  \/ (CfgEndstopMin # FZero /\ FLess(zendstop[3], CfgEndstopMin))
  \/ (CfgEndstopMax # FZero /\ FLess(CfgEndstopMax, zendstop[3]))

\* C1: whenever an invocation finds X, Y or Z not homed, the run is over with
\* NotHomed and has issued no move, probe or offset command, whatever the
\* leveling status is.
C1_NotHomedAbortsFirst ==
  (RunStarted /\ ~(Axes \subseteq homed_axes))
    => (pc = "done" /\ err = "NotHomed" /\ cmds = <<>> /\ ~offset_changed)

\* a run ended with NotHomed although the required leveling was not applied either
C1_Witness ==
  /\ pc = "done"
  /\ err = "NotHomed"
  /\ homed_axes = {"x", "y"}
  /\ applied.quad_gantry_level = <<FALSE>>
  /\ self.adjusttype = "qgl"

\* the 'applied' status of the leveling subsystem the alignment mode requires
RequiredApplied ==
  IF self.adjusttype = "qgl" THEN applied.quad_gantry_level ELSE applied.z_tilt

\* C2: with all axes homed and a mode that requires leveling, a run whose
\* leveling status is not applied is over with AlignmentNotApplied and has issued
\* no command; a run that issued any command had applied = true or the mode Ignore.
C2_AlignmentRequired ==
  /\ (RunStarted /\ pc # "align" /\ Axes \subseteq homed_axes
        /\ self.adjusttype \in {"qgl", "ztilt"} /\ RequiredApplied # <<TRUE>>)
       => (pc = "done" /\ err = "AlignmentNotApplied" /\ cmds = <<>> /\ ~offset_changed)
  /\ (RunStarted /\ cmds # <<>>)
       => (self.adjusttype = "ignore" \/ RequiredApplied = <<TRUE>>)

\* a run under z_tilt ended with AlignmentNotApplied before any command
C2_Witness ==
  /\ pc = "done"
  /\ err = "AlignmentNotApplied"
  /\ Axes \subseteq homed_axes
  /\ self.adjusttype = "ztilt"
  /\ applied.z_tilt = <<FALSE>>
  /\ cmds = <<>>

\* C3: a run that completed both probes and whose result fails validation ends
\* without the commit: the only offset command is the reset to 0 and the applied
\* Z offset is 0, whatever it was before the run.
C3_FailSafeCommit ==
  (pc = "done" /\ Computed /\ ValidationFails)
    => (gcode_z_offset = FZero /\ SinkValues = <<FZero>> /\ err \in OutOfBoundsErrors)

\* a run that started with a nonzero offset applied failed the endstop check
C3_Witness ==
  /\ pc = "done"
  /\ err = "EndstopMaxOutOfBounds"
  /\ offset_changed
  /\ gcode_z_offset = FZero

\* C4 as stated: in a run that ends with an error no call of the offset sink has
\* changed the offset from its value before the invocation.
C4_NoSinkChangeOnError ==
  (pc = "done" /\ err # "none") => ~offset_changed

\* C4 amended: a run that ends with NotHomed or AlignmentNotApplied has made no
\* call of the offset sink; a run that ends with any other error has made the
\* reset to 0 only, which leaves the offset at 0; the computed offset is passed to
\* the sink only in a run whose result passed validation.
C4_SinkOnErrorIsResetOnly ==
  /\ (pc = "done" /\ err \in {"NotHomed", "AlignmentNotApplied"})
       => (SinkValues = <<>> /\ ~offset_changed)
  /\ (pc = "done" /\ err \notin {"none", "NotHomed", "AlignmentNotApplied"})
       => (SinkValues = <<FZero>> /\ gcode_z_offset = FZero)
  /\ (RunStarted /\ Len(SinkValues) > 1)
       => (pc = "done" /\ err = "none" /\ ~ValidationFails)

\* a probe failure left the offset reset to 0 instead of its earlier value
C4_Witness ==
  /\ pc = "done"
  /\ err = "ProbeError"
  /\ offset_changed
  /\ gcode_z_offset = FZero

\* 0 when ignore_endstop_offset is set, internal_endstop_offset otherwise
EffectiveEndstopOffset ==
  IF getoption(config.ignore_endstopoffset, FALSE) THEN FZero
  ELSE getoption(config.internalendstopoffset, FromRatio(1, 2))

\* the OFFSETADJUST parameter when present and nonzero, else the configured adjust
ExpectedAdjust ==
  IF gcmd.OFFSETADJUST # <<>> /\ gcmd.OFFSETADJUST[1] # FZero
  THEN gcmd.OFFSETADJUST[1]
  ELSE CfgManualAdjust

\* C5: the value a committing run leaves in the offset sink is
\* round_to(-(endstop_z - bed_z) + effective_endstop_offset + adjust, 3), endstop_z
\* being the sample taken over endstop_position and bed_z the one over
\* center_position.
C5_CommittedValue ==
  (pc = "done" /\ err = "none")
    => /\ gcode_z_offset =
            rounding(FAdd(FAdd(FNeg(FSub(zendstop[3], zbed[3])), EffectiveEndstopOffset),
                          ExpectedAdjust), 3)
       /\ cmds[Len(cmds)] = Call("SET_GCODE_OFFSET", <<gcode_z_offset>>)
       /\ <<zendstop[1], zendstop[2]>> =
            <<FSub(config.endstop_xy_position[1], self.x_offset),
              FSub(config.endstop_xy_position[2], self.y_offset)>>
       /\ <<zbed[1], zbed[2]>> =
            <<FSub(config.center_xy_position[1], self.x_offset),
              FSub(config.center_xy_position[2], self.y_offset)>>

\* a run with ignore_endstop_offset set committed a nonzero offset
C5_Witness ==
  /\ pc = "done"
  /\ err = "none"
  /\ self.ignore_endstopoffset
  /\ zendstop[3] # zbed[3]
  /\ gcode_z_offset # FZero

\* round half away from zero of the real number v * 10^d, over 10^d
RoundHalfAway(v, d) ==
  IF v.sgn = 0 THEN FZero
  ELSE LET N == NatMulSmall(v.mant, 10 ^ d)
           twice == NatToInt(NatShrSticky(N, 0 - v.exp - 1).q)
       IN  FromRatio(v.sgn * ((twice + 1) \div 2), 10 ^ d)

\* C6: round_to(v, d) is round half away from zero: the nearest multiple of 10^-d,
\* and of two equally near ones the one farther from zero, whatever the sign of v.
C6_RoundsHalfAwayFromZero ==
  (rpc \in {"once", "twice"}) => r1[1] = RoundHalfAway(rn, rdecimals)

\* C7: round_to(round_to(v, 3), 3) = round_to(v, 3).
C7_Idempotent ==
  (rpc = "twice" /\ rdecimals = 3) => r2 = r1

\* C8: the adjust term a run computes with is the OFFSETADJUST parameter when it
\* is present and nonzero and the configured manual_adjust otherwise, in every
\* invocation: self.offsetadjust stays the configured value.
C8_OverridePrecedence ==
  /\ Computed => outcome[1].adjust = ExpectedAdjust
  /\ self # <<>> => self.offsetadjust = CfgManualAdjust

\* a run given OFFSETADJUST=0 computed with a nonzero configured adjust
C8_Witness ==
  /\ Computed
  /\ gcmd.OFFSETADJUST = <<FZero>>
  /\ CfgManualAdjust # FZero
  /\ outcome[1].adjust = CfgManualAdjust

\* C9: the offset check fails exactly when offset < offset_bounds.min or
\* offset > offset_bounds.max; an offset equal to a bound passes.
C9_OffsetBoundsInclusive ==
  (Computed /\ pc \in {"commit", "done"})
    => /\ (err = "OffsetOutOfBounds")
            <=> (FLess(offset[1], CfgOffsetMin) \/ FLess(CfgOffsetMax, offset[1]))
       /\ (offset[1] \in {CfgOffsetMin, CfgOffsetMax}) => err # "OffsetOutOfBounds"

\* an offset of exactly offset_max passed the check and was committed
C9_Witness ==
  /\ pc = "done"
  /\ Computed
  /\ offset[1] = CfgOffsetMax
  /\ err = "none"
  /\ gcode_z_offset = CfgOffsetMax

\* C10: an endstop bound of 0 never aborts a run, even for a negative endstop_z;
\* a nonzero bound aborts the run with OutOfBounds when endstop_z is strictly
\* beyond it, and its check fails for no other endstop_z.
C10_EndstopBounds ==
  (Computed /\ pc \in {"commit", "done"})
    => /\ (CfgEndstopMin = FZero) => err # "EndstopMinOutOfBounds"
       /\ (CfgEndstopMax = FZero) => err # "EndstopMaxOutOfBounds"
       /\ (CfgEndstopMin # FZero /\ FLess(zendstop[3], CfgEndstopMin))
            => err \in OutOfBoundsErrors
       /\ (CfgEndstopMax # FZero /\ FLess(CfgEndstopMax, zendstop[3]))
            => err \in OutOfBoundsErrors
       /\ (err = "EndstopMinOutOfBounds") => FLess(zendstop[3], CfgEndstopMin)
       /\ (err = "EndstopMaxOutOfBounds") => FLess(CfgEndstopMax, zendstop[3])

\* with endstop_min = 0 a run with a negative endstop_z committed
C10_Witness ==
  /\ pc = "done"
  /\ err = "none"
  /\ CfgEndstopMin = FZero
  /\ zendstop[3].sgn < 0
  /\ SinkValues = <<FZero, FZero, offset[1]>>

\* the constructor has returned or raised
Constructed == pc # "new"

\* the sensor sections and the alignment sources the configuration holds
SensorSectionsPresent == {n \in {"bltouch", "probe"} : config[n] # <<>>}

AlignmentSourcesPresent ==
  {n \in {"quad_gantry_level", "z_tilt"} : config[n]}
    \cup (IF config.ignore_alignment = <<TRUE>> THEN {"ignore_alignment"} ELSE {})

\* C11: construction succeeds only with exactly one sensor section and exactly
\* one alignment source; every other combination of sections ends construction
\* with a ConfigurationError.
C11_ExactlyOneSensorAndAlignment ==
  (Constructed /\ pc # "config_error")
    => (Cardinality(SensorSectionsPresent) = 1 /\ Cardinality(AlignmentSourcesPresent) = 1)

\* C12: with the ignore-alignment flag set the mode is Ignore whichever leveling
\* sections exist, and no run with all axes homed ends with AlignmentNotApplied.
C12_IgnoreFlagOverrides ==
  (Constructed /\ pc # "config_error" /\ config.ignore_alignment = <<TRUE>>)
    => /\ self.adjusttype = "ignore"
       /\ (RunStarted /\ Axes \subseteq homed_axes) => err # "AlignmentNotApplied"

\* C13: a construction that ends with a ConfigurationError has not registered
\* AUTO_OFFSET_Z with the dispatcher.
C13_NoRegistrationOnConfigError ==
  (pc = "config_error") => ~registered

\* C14: after any sequence of invocations every field of the object holds the
\* value construction gave it.
C14_ConfigImmutable ==
  (Constructed /\ pc # "config_error")
    => \A f \in DOMAIN self : self[f] = NewSelf(config)[f]

IsHopCall(c) == c.cmd = "manual_move" /\ c.arg[1][1] = <<>> /\ c.arg[1][2] = <<>>

\* the last command is the hop the claim asks for after a probe that ended at z,
\* or, for z_hop <= 0, it is not a hop
HopAsSpecified(z) ==
  IF FLess(FZero, self.z_hop)
  THEN cmds[Len(cmds)] = Call("manual_move",
                              << << <<>>, <<>>, <<FAdd(z, self.z_hop)>> >>, self.z_hop_speed >>)
  ELSE ~IsHopCall(cmds[Len(cmds)])

\* C15: after each probe a hop is commanded iff z_hop > 0, and it is a relative
\* upward move: X and Y unchanged, Z the toolhead Z at the end of the probe plus
\* z_hop, at z_hop_speed.
C15_HopRelativeUpward ==
  /\ (pc = "move_center") => HopAsSpecified(zendstop[3])
  /\ (pc = "compute") => HopAsSpecified(zbed[3])

\* the commands the claims name, from the configuration and the sensor offset
SetOffsetTo(z) == Call("SET_GCODE_OFFSET", <<z>>)

TravelOver(xy) ==
  Call("manual_move",
       << << <<FSub(xy[1], self.x_offset)>>, <<FSub(xy[2], self.y_offset)>> >>,
          getoption(config.speed, FromInt(50)) >>)

ProbeSession ==
  <<Call("start_probe_session", <<>>), Call("run_probe", <<>>),
    Call("pull_probed_results", <<>>), Call("end_probe_session", <<>>)>>

\* the hop of lines 143-144, when the run commands one
HopWhenEnabled ==
  IF self.z_hop # FZero
  THEN <<Call("manual_move", << << <<>>, <<>>, <<self.z_hop>> >>, self.z_hop_speed >>)>>
  ELSE <<>>

\* the moves and probes of a run that completes both probes, in order
ExpectedMotion ==
  <<TravelOver(config.endstop_xy_position)>> \o ProbeSession \o HopWhenEnabled
    \o <<TravelOver(config.center_xy_position)>> \o ProbeSession \o HopWhenEnabled

Committed == pc = "done" /\ err = "none"

\* C16: a run that commits has issued exactly: set offset 0, travel over the
\* endstop, one probe session, hop, travel over the bed center, one probe
\* session, hop, set offset 0, set offset to the computed offset.
C16_CommandOrder ==
  Committed => cmds = <<SetOffsetTo(FZero)>> \o ExpectedMotion
                        \o <<SetOffsetTo(FZero), SetOffsetTo(offset[1])>>

\* a run with both hops committed after fifteen commands, the sensor offset
\* being nonzero in X
C16_Witness ==
  /\ Committed
  /\ Len(cmds) = 15
  /\ Len(SelectSeq(cmds, IsHopCall)) = 2
  /\ self.x_offset # FZero
  /\ gcode_z_offset = offset[1]

IsMotionCall(c) == ~IsSinkCall(c)

\* C17: once both probes are complete the run has issued both travel moves,
\* both probe sessions and both hops, whatever validation says afterwards; a
\* run that fails validation issued the commands of a committing run but for
\* the two calls of the commit.
C17_MotionBeforeValidation ==
  Computed
    => /\ SelectSeq(cmds, IsMotionCall) = ExpectedMotion
       /\ (err \in OutOfBoundsErrors) => cmds = <<SetOffsetTo(FZero)>> \o ExpectedMotion
       /\ Committed => SubSeq(cmds, 1, Len(cmds) - 2) = <<SetOffsetTo(FZero)>> \o ExpectedMotion

\* a run failed validation after both hops had been commanded
C17_Witness ==
  /\ pc = "done"
  /\ err \in OutOfBoundsErrors
  /\ self.z_hop # FZero
  /\ Len(SelectSeq(cmds, IsHopCall)) = 2
  /\ Len(cmds) = 13

IsTravelCall(c) == c.cmd = "manual_move" /\ ~IsHopCall(c)

IsProbeRun(c) == c.cmd = "run_probe"

RunErrors ==
  {"NotHomed", "AlignmentNotApplied", "NameError", "MoveError", "ProbeError"}
    \cup OutOfBoundsErrors

\* no step of the run was executed more often than the handler has it
StepsAtMostOnce ==
  /\ Len(SelectSeq(cmds, IsTravelCall)) <= 2
  /\ Len(SelectSeq(cmds, IsProbeRun)) <= 2
  /\ Len(SelectSeq(cmds, IsHopCall)) <= 2
  /\ Len(SelectSeq(cmds, IsSinkCall)) <= 3

\* a run that is over either committed, or failed with an error and did not
OneTerminalOutcome ==
  (pc = "done")
    => \/ err = "none" /\ Len(SinkValues) = 3 /\ SinkValues[3] = offset[1]
       \/ err \in RunErrors /\ Len(SinkValues) <= 1

\* C18: every step of a run is executed at most once; a run that failed is over
\* and issues no further command; every run ends, committed or with an error.
C18_NoRetryAbortOnFirstFailure ==
  /\ [](StepsAtMostOnce /\ OneTerminalOutcome)
  /\ []((RunStarted /\ err # "none") => pc = "done")
  /\ [][(RunStarted /\ err # "none") => (Len(cmds') <= Len(cmds) /\ pc' = "idle")]_vars
  /\ (RunStarted ~> (pc = "done"))

\* a run ended with ProbeError in the second probe session, the bed probe
\* having been started once
C18_Witness ==
  /\ pc = "done"
  /\ err = "ProbeError"
  /\ Len(SelectSeq(cmds, IsProbeRun)) = 2
  /\ Len(SelectSeq(cmds, IsTravelCall)) = 2

\* v is the float of a decimal number with at most three decimals
IsThreeDecimal(v) ==
  \E k \in {FFloor(FMulInt(v, 1000))} : v = Dec(k) \/ v = Dec(k + 1)

\* z is inside every endstop bound that is enabled
EndstopWithinBounds(z) ==
  /\ (CfgEndstopMin # FZero) => ~FLess(z, CfgEndstopMin)
  /\ (CfgEndstopMax # FZero) => ~FLess(CfgEndstopMax, z)

\* C19: every value passed to SET_GCODE_OFFSET is 0, or it is the offset the run
\* computed: a three-decimal value inside offset_min..offset_max, of a run
\* whose endstop_z is inside the enabled endstop bounds, and passed right after
\* a set to 0 of the same run.
C19_SinkValuesValidated ==
  \A i \in DOMAIN cmds :
    (IsSinkCall(cmds[i]) /\ cmds[i].arg[1] # FZero)
      => /\ offset # <<>>
         /\ cmds[i].arg[1] = offset[1]
         /\ IsThreeDecimal(offset[1])
         /\ ~FLess(offset[1], CfgOffsetMin)
         /\ ~FLess(CfgOffsetMax, offset[1])
         /\ EndstopWithinBounds(zendstop[3])
         /\ i > 1
         /\ cmds[i - 1] = SetOffsetTo(FZero)

\* a nonzero offset was committed under an enabled upper endstop bound, in a
\* run that started from a nonzero applied offset
C19_Witness ==
  /\ Committed
  /\ offset[1] # FZero
  /\ CfgEndstopMax # FZero
  /\ gcode_z_offset = offset[1]
  /\ offset_changed
  /\ cmds[Len(cmds)] = SetOffsetTo(offset[1])

\* the object a second instance built from the same configuration holds before
\* its first invocation
FreshSelf == NewSelf(config)

\* what an instance with the fields f does on the inputs of the current run: the
\* alignment verdict, the moves and probes, the offset, the verdict of the fail-safe
FreshAlignmentError(f) ==
  IF f.adjusttype = "qgl"
  THEN (IF applied.quad_gantry_level = <<TRUE>> THEN "none" ELSE "AlignmentNotApplied")
  ELSE IF f.adjusttype = "ztilt"
  THEN (IF applied.z_tilt = <<TRUE>> THEN "none" ELSE "AlignmentNotApplied")
  ELSE "none"

FreshTravel(f, x, y) ==
  Call("manual_move", << << <<FSub(x, f.x_offset)>>, <<FSub(y, f.y_offset)>> >>, f.speed >>)

FreshHop(f) ==
  IF f.z_hop # FZero
  THEN <<Call("manual_move", << << <<>>, <<>>, <<f.z_hop>> >>, f.z_hop_speed >>)>>
  ELSE <<>>

FreshCommands(f) ==
  <<SetOffsetTo(FZero), FreshTravel(f, f.endstop_x_pos, f.endstop_y_pos)>>
    \o ProbeSession \o FreshHop(f)
    \o <<FreshTravel(f, f.center_x_pos, f.center_y_pos)>>
    \o ProbeSession \o FreshHop(f)

FreshOffset(f) ==
  rounding(FAdd(FAdd(FSub(FZero, FSub(zendstop[3], zbed[3])),
                     IF f.ignore_endstopoffset THEN FZero ELSE f.internalendstopoffset),
                IF getoption(gcmd.OFFSETADJUST, FZero) # FZero
                THEN gcmd.OFFSETADJUST[1] ELSE f.offsetadjust),
           3)

FreshValidateError(f) ==
  IF FLess(offset[1], f.offset_min) \/ FLess(f.offset_max, offset[1])
  THEN "OffsetOutOfBounds"
  ELSE IF f.endstop_min # FZero /\ FLess(zendstop[3], f.endstop_min)
  THEN "EndstopMinOutOfBounds"
  ELSE IF f.endstop_max # FZero /\ FLess(f.endstop_max, zendstop[3])
  THEN "EndstopMaxOutOfBounds"
  ELSE "none"

IsPrefixOf(p, q) == Len(p) <= Len(q) /\ p = SubSeq(q, 1, Len(p))

\* the run is what an instance with the fields f produces on the same inputs
SameAsFresh(f) ==
  /\ (pc # "align" /\ Axes \subseteq homed_axes /\ err # "NameError")
       => ((err = "AlignmentNotApplied") <=> (FreshAlignmentError(f) = "AlignmentNotApplied"))
  /\ ~Computed => IsPrefixOf(cmds, FreshCommands(f))
  /\ Computed
       => \A o \in {FreshOffset(f)} :
            /\ offset[1] = o
            /\ outcome[1].offset = o
            /\ IsPrefixOf(cmds, FreshCommands(f) \o <<SetOffsetTo(FZero), SetOffsetTo(o)>>)
            /\ Committed => cmds = FreshCommands(f) \o <<SetOffsetTo(FZero), SetOffsetTo(o)>>
  /\ (Computed /\ pc \in {"commit", "done"}) => err = FreshValidateError(f)

\* C20: whatever invocations the instance has executed before, a run produces
\* the error, the offset and the commands that a newly built instance of the
\* same configuration produces for the same parameter, homing and leveling
\* status and probe measurements.
C20_HistoryIndependent ==
  RunStarted => \A f \in {FreshSelf} : SameAsFresh(f)

\* a run ended in its second probe session, before the computation, on an
\* object whose internalendstopoffset an earlier run had overwritten
C20_Witness ==
  /\ pc = "done"
  /\ err = "ProbeError"
  /\ zendstop # <<>>
  /\ self.internalendstopoffset # FreshSelf.internalendstopoffset

====
